---- MODULE Spec2Model ----
(***************************************************************************)
(* ts-dumper: dump the latest transcript of every page of a Transkribus    *)
(* collection to <stem>.txt / <stem>-meta.txt.  Model of src/ts-dumper.py: *)
(* run() -> cli() -> auth_login, get_collection_from_name, the pull loop,  *)
(* the export loop and get_text_from_transcript.                           *)
(*                                                                         *)
(* The remote service and the local disk are the environment.  Every       *)
(* reply of the service and every outcome of a write is drawn when the     *)
(* program asks for it, unless the variables `remote` / `disk` pin it.     *)
(***************************************************************************)
EXTENDS Integers, Sequences, FiniteSets, TLC

VARIABLES
    pc,           \* position of the program in run()/cli()
    remote,       \* replies the service is pinned to (empty: any reply)
    disk,         \* write outcomes the disk is pinned to (empty: any)
    base_exists,  \* base_path.exists()
    dir,          \* files of the target directory: name -> content
    session_id,   \* result of auth_login
    collection,   \* result of get_collection_from_name
    docs,         \* the document list (docIds)
    docs_pages,   \* the pull loop's result: per document, its page list
    di,           \* position of `for doc_id, obj in docs_pages.items()`
    pgi,          \* position of `for page in pages`
    task,         \* progress: completed documents
    task2,        \* progress: completed pages, per document
    transcripts,  \* page['tsList']['transcripts'] of the current page
    latest,       \* versions with the maximum timestamp
    text,         \* the text fetched for the current page
    fetched,      \* requests made for the current page: <<url, result>>
    wrote,        \* files whose write_text returned, for the current page
    outcome,      \* what the console shows for the current page
    ex,           \* the exception caught for the current page
    visited,      \* pages the export loop has entered, in order
    snap,         \* dir at the previous page boundary
    exit_code     \* status run() exits with (NoExit while running)

vars == <<pc, remote, disk, base_exists, dir, session_id, collection, docs,
          docs_pages, di, pgi, task, task2, transcripts, latest, text,
          fetched, wrote, outcome, ex, visited, snap, exit_code>>

(***************************************************************************)
(* Bounds of the model.                                                    *)
(***************************************************************************)
MaxDocs == 2       \* documents in the collection
MaxPages == 2      \* pages in the collection, over all its documents
MaxVersions == 2   \* transcript versions of a page
MaxRegions == 2    \* text regions of a page-content document

(***************************************************************************)
(* Values.                                                                 *)
(***************************************************************************)
None == "<None>"
NoExit == -1
EmptyMap == [k \in {} |-> None]
Timestamps == {100, 200}
CollectionName == "Cadmania"

\* Sequences over S of length 0..n
SeqUpTo(S, n) == UNION {[1..k -> S] : k \in 0..n}

Sum(s) == LET RECURSIVE go(_)
              go(i) == IF i = 0 THEN 0 ELSE s[i] + go(i - 1)
          IN go(Len(s))

(***************************************************************************)
(* Transcript versions.  A version is a dict of the service; `keys` are    *)
(* the metadata keys it carries (lines 269-271 read them with .get).       *)
(***************************************************************************)
MetaOf(i) ==
    CASE i % 3 = 1 -> [keys |-> {"status", "userName", "nrOfLines"},
                       status |-> "DONE", userName |-> "alice", nrOfLines |-> 5]
      [] i % 3 = 2 -> [keys |-> {},
                       status |-> None, userName |-> None, nrOfLines |-> 0]
      [] OTHER     -> [keys |-> {"status", "userName", "nrOfLines"},
                       status |-> "IN_PROGRESS", userName |-> "bob", nrOfLines |-> 0]

Version(name, i, ts) ==
    [timestamp |-> ts, url |-> <<name, i>>, keys |-> MetaOf(i).keys,
     status |-> MetaOf(i).status, userName |-> MetaOf(i).userName,
     nrOfLines |-> MetaOf(i).nrOfLines]

\* The tsList replies a page named `name` can carry
TsLists(name) ==
    {[i \in 1..Len(f) |-> Version(name, i, f[i])] : f \in SeqUpTo(Timestamps, MaxVersions)}

(***************************************************************************)
(* Page-content documents (PAGE XML): the text regions of the Page         *)
(* element, in document order.                                             *)
(***************************************************************************)
NoTextEquiv == [hasTextEquiv |-> FALSE, Unicode |-> None]
NullUnicode == [hasTextEquiv |-> TRUE, Unicode |-> None]
Regions == {NoTextEquiv, NullUnicode,
            [hasTextEquiv |-> TRUE, Unicode |-> "Hello"]}

\* A reply to GET url: a transport/parse failure, or a document
Documents ==
    {[ok |-> TRUE, regions |-> r] : r \in SeqUpTo(Regions, MaxRegions)}
FetchError == [ok |-> FALSE, regions |-> <<>>]
TranscriptReplies == Documents \cup {FetchError}

(***************************************************************************)
(* get_text_from_transcript, lines 92-102.                                 *)
(***************************************************************************)
\* xmltodict.parse: the Page element as a dict. A child tag that occurs
\* once maps to its dict, one that occurs several times maps to a list of
\* dicts, one that does not occur is no key.
xmltodict_parse(regions) ==
    [hasTextRegion |-> Len(regions) >= 1,
     isList        |-> Len(regions) >= 2,
     TextRegion    |-> regions]

\* 'TextEquiv' in tr: a key test on a dict, an element test on a list
\* (no element of a list of dicts equals the string 'TextEquiv')
InTextEquiv(pg) ==
    IF pg.isList THEN FALSE ELSE pg.TextRegion[1].hasTextEquiv

\* The value returned for a parsed document: the Unicode text or None
get_text_from_transcript(regions) ==
    LET pg == xmltodict_parse(regions)
    IN  IF pg.hasTextRegion
        THEN IF InTextEquiv(pg)
             THEN IF pg.TextRegion[1].Unicode # None
                  THEN pg.TextRegion[1].Unicode
                  ELSE None
             ELSE None
        ELSE None

(***************************************************************************)
(* Selection, lines 242-256.                                               *)
(***************************************************************************)
\* MaxTs gone wrong: the minimum instead of the maximum
MinTs(ts) ==
    CHOOSE m \in {ts[i].timestamp : i \in DOMAIN ts} :
        \A i \in DOMAIN ts : ts[i].timestamp >= m

\* max([t['timestamp'] for t in transcripts]), for a non-empty list
MaxTs(ts) ==
    CHOOSE m \in {ts[i].timestamp : i \in DOMAIN ts} :
        \A i \in DOMAIN ts : ts[i].timestamp <= m

\* list(filter(lambda x: max_ts == x['timestamp'], transcripts))
Latest(ts, max_ts) == SelectSeq(ts, LAMBDA x : max_ts = x.timestamp)

\* OLatest gone wrong: the filter keeps every version
OLatestAll(ts, l) == SelectSeq(ts, LAMBDA x : TRUE)

\* list(filter(lambda x: latest[0]['timestamp'] != x['timestamp'], transcripts))
OLatest(ts, l) == SelectSeq(ts, LAMBDA x : l[1].timestamp # x.timestamp)

(***************************************************************************)
(* Output files, lines 237-240 and 266-273.                                *)
(***************************************************************************)
\* Path(image_file_name).stem; an image name is <<stem, suffix>>
Stem(name) == name[1]
text_file_name(name) == Stem(name) \o ".txt"
meta_file_name(name) == Stem(name) \o "-meta.txt"

\* Get gone wrong: the key is never looked up
GetDefault(d, key, default) == default

\* dict.get(key, default)
Get(d, key, default) == IF key \in d.keys THEN d[key] ELSE default

\* '\n'.join(meta) of lines 268-273
Meta(v) ==
    "status:\t" \o Get(v, "status", "N/A") \o "\n" \o
    "userName:\t" \o Get(v, "userName", "N/A") \o "\n" \o
    "nrOfLines:\t" \o ToString(Get(v, "nrOfLines", 0))

\* write_text gone wrong: the file is opened for appending
write_text_append(d, file, t) ==
    (file :> (IF file \in DOMAIN d THEN d[file] \o t ELSE t)) @@ d

\* Path.write_text: the file holds exactly the text afterwards
write_text(d, file, t) == (file :> t) @@ d

\* Truthy gone wrong: true only of a list of several elements
TruthyTwo(l) == Len(l) > 1

\* `if latest:` of line 267
Truthy(l) == Len(l) > 0

\* AfterExcept gone wrong: the exception leaves the loops
AfterExceptLeaves == "exit"

\* where control goes after `except Exception` (lines 274-279)
AfterExcept == "advance"

(***************************************************************************)
(* The environment: what the service replies and what a write does.        *)
(***************************************************************************)
Raised == "<raised>"

\* POST auth/login: an HTTP error status, a body without //sessionId, or a
\* body with one
LoginReplies == {"http_error", "no_session", "session"}

\* GET collections: an HTTP error status, or the colNames of trpCollection
CollectionReplies ==
    {[ok |-> FALSE, names |-> <<>>],
     [ok |-> TRUE, names |-> <<>>],
     [ok |-> TRUE, names |-> <<"cadmania", "Cadmania II">>],
     [ok |-> TRUE, names |-> <<"Other", "Cadmania">>]}

\* GET collections/<id>/list: a body that is no JSON, or the docIds
DocsReplies ==
    {[ok |-> FALSE, ids |-> <<>>]}
    \cup {[ok |-> TRUE, ids |-> [i \in 1..n |-> i]] : n \in 0..MaxDocs}

\* imgFileName of page p of document d
ImgName(d, p) == <<"img" \o ToString(d) \o "_" \o ToString(p), ".jpg">>

\* GET collections/<id>/<docId>/fulldoc: a body without pageList, or the
\* imgFileNames of pageList.pages
FulldocReplies(d, used) ==
    {[ok |-> FALSE, pages |-> <<>>]}
    \cup {[ok |-> TRUE, pages |-> [p \in 1..n |-> ImgName(d, p)]] :
            n \in 0..(MaxPages - used)}

\* tsList.transcripts of the page named `name` in the fulldoc reply
TsListReply(name) ==
    IF name \in DOMAIN remote.tsList THEN {remote.tsList[name]}
    ELSE TsLists(name)

\* GET url
TranscriptReply(url) ==
    IF url \in DOMAIN remote.transcript THEN {remote.transcript[url]}
    ELSE TranscriptReplies

\* write_text / mkdir: returns, or raises OSError leaving the file as it was
WriteOutcomes == {"ok", "error"}
WriteOutcome(file) ==
    IF file \in DOMAIN disk THEN {disk[file]} ELSE WriteOutcomes

NoRemote == [tsList |-> EmptyMap, transcript |-> EmptyMap]

(***************************************************************************)
(* State after construction: run() is about to call cli().                 *)
(***************************************************************************)
Start ==
    /\ pc = "start"
    /\ session_id = None
    /\ collection = None
    /\ docs = <<>>
    /\ docs_pages = <<>>
    /\ di = 0
    /\ pgi = 0
    /\ task = 0
    /\ task2 = <<>>
    /\ transcripts = <<>>
    /\ latest = <<>>
    /\ text = None
    /\ fetched = <<>>
    /\ wrote = {}
    /\ outcome = None
    /\ ex = None
    /\ visited = <<>>
    /\ exit_code = NoExit

Init ==
    /\ Start
    /\ remote = NoRemote
    /\ disk = EmptyMap
    /\ base_exists \in BOOLEAN
    /\ dir = EmptyMap
    /\ snap = dir

Pages(d) == docs_pages[d].pages
PageVars == <<transcripts, latest, text, fetched, wrote, outcome, ex>>
LoopVars == <<di, pgi, task, task2, visited, snap>>
SetupVars == <<base_exists, session_id, collection, docs, docs_pages>>
EnvVars == <<remote, disk>>

\* run(), lines 309-318: an exception out of cli() ends the process with 1
Abort ==
    /\ pc' = "exit"
    /\ exit_code' = 1

(***************************************************************************)
(* cli(), lines 173-221: setup and the pull loop.                          *)
(***************************************************************************)
\* lines 173-176
EnsureDir ==
    /\ pc = "start"
    /\ \/ /\ base_exists
          /\ pc' = "login"
          /\ UNCHANGED <<base_exists, exit_code>>
       \/ /\ ~base_exists
          /\ \E o \in WriteOutcomes :
                IF o = "ok"
                THEN /\ base_exists' = TRUE
                     /\ pc' = "login"
                     /\ UNCHANGED exit_code
                ELSE /\ Abort
                     /\ UNCHANGED base_exists
    /\ UNCHANGED <<session_id, collection, docs, docs_pages, dir>>
    /\ UNCHANGED <<EnvVars, LoopVars, PageVars>>

\* auth_login, lines 79-89: the sessionId, or None when the body has none;
\* raise_for_status raises on an error status
auth_login(reply) == IF reply = "session" THEN "JSESSIONID" ELSE None

\* line 177-179
Login ==
    /\ pc = "login"
    /\ \E reply \in LoginReplies :
          IF reply = "http_error"
          THEN /\ Abort
               /\ UNCHANGED session_id
          ELSE /\ session_id' = auth_login(reply)
               /\ pc' = "collection"
               /\ UNCHANGED exit_code
    /\ UNCHANGED <<base_exists, collection, docs, docs_pages, dir>>
    /\ UNCHANGED <<EnvVars, LoopVars, PageVars>>

\* get_collection_from_name, lines 105-113: the first collection whose
\* colName equals name, or None
get_collection_from_name(name, names) ==
    LET found == SelectSeq(names, LAMBDA x : x = name)
    IN  IF Len(found) > 0 THEN found[1] ELSE None

\* lines 180-192
GetCollection ==
    /\ pc = "collection"
    /\ \E reply \in CollectionReplies :
          IF ~reply.ok
          THEN /\ Abort
               /\ UNCHANGED collection
          ELSE /\ collection' = get_collection_from_name(CollectionName, reply.names)
               /\ IF collection' = None
                  THEN Abort
                  ELSE /\ pc' = "list"
                       /\ UNCHANGED exit_code
    /\ UNCHANGED <<base_exists, session_id, docs, docs_pages, dir>>
    /\ UNCHANGED <<EnvVars, LoopVars, PageVars>>

\* lines 194-201
GetDocs ==
    /\ pc = "list"
    /\ \E reply \in DocsReplies :
          IF ~reply.ok
          THEN /\ Abort
               /\ UNCHANGED docs
          ELSE /\ docs' = reply.ids
               /\ pc' = "pull"
               /\ UNCHANGED exit_code
    /\ UNCHANGED <<base_exists, session_id, collection, docs_pages, dir>>
    /\ UNCHANGED <<EnvVars, LoopVars, PageVars>>

\* lines 206-221, one iteration of `for doc in docs`
PullDoc ==
    /\ pc = "pull"
    /\ Len(docs_pages) < Len(docs)
    /\ LET d == docs[Len(docs_pages) + 1]
           used == Sum([i \in DOMAIN docs_pages |-> Len(docs_pages[i].pages)])
       IN  \E reply \in FulldocReplies(d, used) :
              IF ~reply.ok
              THEN /\ Abort
                   /\ UNCHANGED docs_pages
              ELSE /\ docs_pages' = Append(docs_pages, [doc |-> d, pages |-> reply.pages])
                   /\ UNCHANGED <<pc, exit_code>>
    /\ UNCHANGED <<base_exists, session_id, collection, docs, dir>>
    /\ UNCHANGED <<EnvVars, LoopVars, PageVars>>

(***************************************************************************)
(* cli(), lines 223-280: the export loop.                                  *)
(***************************************************************************)
\* lines 223-227: every document is pulled, the export loop starts
StartExport ==
    /\ pc = "pull"
    /\ Len(docs_pages) = Len(docs)
    /\ pc' = "doc"
    /\ di' = 1
    /\ UNCHANGED <<pgi, task, task2, visited, snap, dir, exit_code>>
    /\ UNCHANGED <<EnvVars, SetupVars, PageVars>>

\* lines 228-232: the next document of docs_pages.items()
EnterDoc ==
    /\ pc = "doc"
    /\ di <= Len(docs_pages)
    /\ task2' = Append(task2, 0)
    /\ pgi' = 1
    /\ pc' = "page"
    /\ UNCHANGED <<di, task, visited, snap, dir, exit_code>>
    /\ UNCHANGED <<EnvVars, SetupVars, PageVars>>

\* the loop over the documents is exhausted: cli() returns, run() returns
Finish ==
    /\ pc = "doc"
    /\ di > Len(docs_pages)
    /\ pc' = "exit"
    /\ exit_code' = 0
    /\ UNCHANGED <<dir>>
    /\ UNCHANGED <<EnvVars, SetupVars, LoopVars, PageVars>>

\* line 280: the pages of the document are exhausted
LeaveDoc ==
    /\ pc = "page"
    /\ pgi > Len(Pages(di))
    /\ task' = task + 1
    /\ di' = di + 1
    /\ pc' = "doc"
    /\ UNCHANGED <<pgi, task2, visited, snap, dir, exit_code>>
    /\ UNCHANGED <<EnvVars, SetupVars, PageVars>>

\* lines 274-278: the exception is caught and printed
Caught(e) ==
    /\ ex' = e
    /\ outcome' = "Error"
    /\ pc' = AfterExcept

\* lines 233-247: the page's transcripts, max_ts and latest.
\* max() of an empty list raises ValueError.
SelectLatest ==
    /\ pc = "page"
    /\ pgi <= Len(Pages(di))
    /\ visited' = Append(visited, <<di, pgi>>)
    /\ \E ts \in TsListReply(Pages(di)[pgi]) :
          /\ transcripts' = ts
          /\ IF Len(ts) = 0
             THEN /\ Caught("ValueError")
                  /\ UNCHANGED latest
             ELSE /\ latest' = Latest(ts, MaxTs(ts))
                  /\ pc' = "fetch_latest"
                  /\ UNCHANGED <<outcome, ex>>
    /\ UNCHANGED <<text, fetched, wrote>>
    /\ UNCHANGED <<di, pgi, task, task2, snap, dir, exit_code>>
    /\ UNCHANGED <<EnvVars, SetupVars>>

\* line 248: text = get_text_from_transcript(headers, latest[0]['url'])
FetchLatest ==
    /\ pc = "fetch_latest"
    /\ \E reply \in TranscriptReply(latest[1].url) :
          IF ~reply.ok
          THEN /\ fetched' = Append(fetched, [url |-> latest[1].url, result |-> Raised])
               /\ Caught("FetchError")
               /\ UNCHANGED text
          ELSE /\ text' = get_text_from_transcript(reply.regions)
               /\ fetched' = Append(fetched, [url |-> latest[1].url, result |-> text'])
               /\ pc' = IF text' = None THEN "fetch_other" ELSE "write_text"
               /\ UNCHANGED <<outcome, ex>>
    /\ UNCHANGED <<transcripts, latest, wrote>>
    /\ UNCHANGED <<dir, exit_code>>
    /\ UNCHANGED <<EnvVars, SetupVars, LoopVars>>

\* lines 249-259: text is None; o_latest[0] raises IndexError when no
\* version has another timestamp
FetchOther ==
    /\ pc = "fetch_other"
    /\ LET o_latest == OLatest(transcripts, latest)
       IN  IF Len(o_latest) = 0
           THEN /\ Caught("IndexError")
                /\ UNCHANGED <<text, fetched>>
           ELSE \E reply \in TranscriptReply(o_latest[1].url) :
                   IF ~reply.ok
                   THEN /\ fetched' = Append(fetched, [url |-> o_latest[1].url, result |-> Raised])
                        /\ Caught("FetchError")
                        /\ UNCHANGED text
                   ELSE /\ text' = get_text_from_transcript(reply.regions)
                        /\ fetched' = Append(fetched, [url |-> o_latest[1].url, result |-> text'])
                        /\ pc' = "write_text"
                        /\ UNCHANGED <<outcome, ex>>
    /\ UNCHANGED <<transcripts, latest, wrote>>
    /\ UNCHANGED <<dir, exit_code>>
    /\ UNCHANGED <<EnvVars, SetupVars, LoopVars>>

\* lines 260-266: a text that is still None becomes '', and is written
WriteText ==
    /\ pc = "write_text"
    /\ text' = IF text = None THEN "" ELSE text
    /\ LET file == text_file_name(Pages(di)[pgi])
       IN  \E o \in WriteOutcome(file) :
              IF o = "ok"
              THEN /\ dir' = write_text(dir, file, text')
                   /\ wrote' = wrote \cup {file}
                   /\ pc' = "write_meta"
                   /\ UNCHANGED <<outcome, ex>>
              ELSE /\ Caught("OSError")
                   /\ UNCHANGED <<dir, wrote>>
    /\ UNCHANGED <<transcripts, latest, fetched>>
    /\ UNCHANGED <<exit_code>>
    /\ UNCHANGED <<EnvVars, SetupVars, LoopVars>>

\* lines 267-273: the metadata of latest[0] is written; the try block ends
WriteMeta ==
    /\ pc = "write_meta"
    /\ LET file == meta_file_name(Pages(di)[pgi])
       IN  IF Truthy(latest)
           THEN \E o \in WriteOutcome(file) :
                   IF o = "ok"
                   THEN /\ dir' = write_text(dir, file, Meta(latest[1]))
                        /\ wrote' = wrote \cup {file}
                        /\ outcome' = "Exported"
                        /\ pc' = "advance"
                        /\ UNCHANGED ex
                   ELSE /\ Caught("OSError")
                        /\ UNCHANGED <<dir, wrote>>
           ELSE /\ outcome' = "Exported"
                /\ pc' = "advance"
                /\ UNCHANGED <<dir, wrote, ex>>
    /\ UNCHANGED <<transcripts, latest, text, fetched>>
    /\ UNCHANGED <<exit_code>>
    /\ UNCHANGED <<EnvVars, SetupVars, LoopVars>>

\* line 279: progress.advance(task2); the loop moves to the next page
Advance ==
    /\ pc = "advance"
    /\ task2' = [task2 EXCEPT ![di] = @ + 1]
    /\ pgi' = pgi + 1
    /\ snap' = dir
    /\ pc' = "page"
    /\ transcripts' = <<>>
    /\ latest' = <<>>
    /\ text' = None
    /\ fetched' = <<>>
    /\ wrote' = {}
    /\ outcome' = None
    /\ ex' = None
    /\ UNCHANGED <<di, task, visited, dir, exit_code>>
    /\ UNCHANGED <<EnvVars, SetupVars>>

Next ==
    \/ EnsureDir
    \/ Login
    \/ GetCollection
    \/ GetDocs
    \/ PullDoc
    \/ StartExport
    \/ EnterDoc
    \/ Finish
    \/ LeaveDoc
    \/ SelectLatest
    \/ FetchLatest
    \/ FetchOther
    \/ WriteText
    \/ WriteMeta
    \/ Advance

Spec == Init /\ [][Next]_vars

(***************************************************************************)
(* The export loop alone.                                                  *)
(***************************************************************************)
NextExport ==
    \/ EnterDoc
    \/ Finish
    \/ LeaveDoc
    \/ SelectLatest
    \/ FetchLatest
    \/ FetchOther
    \/ WriteText
    \/ WriteMeta
    \/ Advance

\* State at line 223 for one document
AtExport(pages) ==
    /\ pc = "doc"
    /\ base_exists = TRUE
    /\ session_id = auth_login("session")
    /\ collection = CollectionName
    /\ docs = <<1>>
    /\ docs_pages = <<[doc |-> 1, pages |-> pages]>>
    /\ di = 1
    /\ pgi = 0
    /\ task = 0
    /\ task2 = <<>>
    /\ transcripts = <<>>
    /\ latest = <<>>
    /\ text = None
    /\ fetched = <<>>
    /\ wrote = {}
    /\ outcome = None
    /\ ex = None
    /\ visited = <<>>
    /\ exit_code = NoExit

Urls(ts) == {ts[i].url : i \in DOMAIN ts}

\* Documents with at most one text region, or a failed request
PinnedReplies == {r \in TranscriptReplies : Len(r.regions) <= 1}

\* The same page listed twice, against a service whose data does not change
\* between the two visits and a disk that behaves the same both times; the
\* target directory may already hold files of the page's names.
InitTwice ==
    LET name == ImgName(1, 1)
        files == {text_file_name(name), meta_file_name(name)}
    IN  /\ AtExport(<<name, name>>)
        /\ \E ts \in TsLists(name) :
              \E tr \in [Urls(ts) -> PinnedReplies] :
                 remote = [tsList |-> (name :> ts), transcript |-> tr]
        /\ disk \in [files -> WriteOutcomes]
        /\ \E old \in SUBSET files : dir = [f \in old |-> "old"]
        /\ snap = dir

SpecTwice == InitTwice /\ [][NextExport]_vars

(***************************************************************************)
(* The two requests of one page, lines 248-259, over every document the    *)
(* service can hold at the page's URLs.                                    *)
(***************************************************************************)
NextFetch ==
    \/ FetchLatest
    \/ FetchOther

InitFetch ==
    LET name == ImgName(1, 1)
    IN  /\ base_exists = TRUE
        /\ session_id = auth_login("session")
        /\ collection = CollectionName
        /\ docs = <<1>>
        /\ docs_pages = <<[doc |-> 1, pages |-> <<name>>]>>
        /\ di = 1
        /\ pgi = 1
        /\ task = 0
        /\ task2 = <<0>>
        /\ visited = <<<<1, 1>>>>
        /\ exit_code = NoExit
        /\ disk = EmptyMap
        /\ dir = EmptyMap
        /\ snap = dir
        /\ \E ts \in TsLists(name) \ {<<>>} :
              /\ transcripts = ts
              /\ latest = Latest(ts, MaxTs(ts))
              /\ \E tr \in [Urls(ts) -> TranscriptReplies] :
                    remote = [tsList |-> (name :> ts), transcript |-> tr]
        /\ pc = "fetch_latest"
        /\ text = None
        /\ fetched = <<>>
        /\ wrote = {}
        /\ outcome = None
        /\ ex = None

SpecFetch == InitFetch /\ [][NextFetch]_vars

(***************************************************************************)
(* Properties.                                                             *)
(***************************************************************************)
\* The current page's output files
TextFile == text_file_name(Pages(di)[pgi])
MetaFile == meta_file_name(Pages(di)[pgi])

\* The page's versions are selected (lines 242-247 have run)
Selected ==
    \/ pc \in {"fetch_latest", "fetch_other", "write_text", "write_meta"}
    \/ pc = "advance" /\ Len(transcripts) > 0

\* Position of the first version holding the maximum timestamp
FirstMax(ts) ==
    CHOOSE i \in DOMAIN ts :
        /\ \A j \in DOMAIN ts : ts[j].timestamp <= ts[i].timestamp
        /\ \A j \in 1..(i - 1) : ts[j].timestamp < ts[i].timestamp

\* Some version has another timestamp than the primary
HasOther(ts) == \E j \in DOMAIN ts : ts[j].timestamp # ts[FirstMax(ts)].timestamp

\* Position of the first version whose timestamp differs from the primary's
FirstOther(ts) ==
    CHOOSE j \in DOMAIN ts :
        /\ ts[j].timestamp # ts[FirstMax(ts)].timestamp
        /\ \A k \in 1..(j - 1) : ts[k].timestamp = ts[FirstMax(ts)].timestamp

\* The three metadata lines of a version, absent fields defaulted
ExpectedMeta(v) ==
    "status:\t" \o (IF "status" \in v.keys THEN v.status ELSE "N/A") \o "\n" \o
    "userName:\t" \o (IF "userName" \in v.keys THEN v.userName ELSE "N/A") \o "\n" \o
    "nrOfLines:\t" \o (IF "nrOfLines" \in v.keys THEN ToString(v.nrOfLines) ELSE "0")

\* C1: the primary version (fetched first, feeding the metadata file) has a
\* timestamp >= that of every version of the page, and among several
\* versions with the maximum timestamp it is the first in list order.
C1_PrimaryIsLatest ==
    Selected =>
        /\ Len(latest) > 0
        /\ \A i \in DOMAIN transcripts :
              transcripts[i].timestamp <= latest[1].timestamp
        /\ latest[1] = transcripts[FirstMax(transcripts)]
        /\ Len(fetched) > 0 =>
              fetched[1].url = transcripts[FirstMax(transcripts)].url
        /\ MetaFile \in wrote =>
              dir[MetaFile] = ExpectedMeta(transcripts[FirstMax(transcripts)])

\* C1 witness: a page whose two versions share the maximum timestamp is exported
C1_Witness ==
    /\ pc = "advance"
    /\ outcome = "Exported"
    /\ Len(transcripts) = 2
    /\ transcripts[1].timestamp = transcripts[2].timestamp
    /\ fetched[1].url = transcripts[1].url

\* C2: when the primary fetch returns no text and the fallback fetch returns
\* a text T, <stem>.txt is written with exactly T and <stem>-meta.txt with
\* the fields of the primary version, never those of the fallback (a write
\* that raises OSError is the only thing that can keep a file unwritten).
C2_FallbackTextPrimaryMeta ==
    (/\ pc = "advance"
     /\ Len(fetched) = 2
     /\ fetched[1].result = None
     /\ fetched[2].result \notin {None, Raised})
    =>
        /\ ex \in {None, "OSError"}
        /\ ex = None => wrote = {TextFile, MetaFile}
        /\ TextFile \in wrote => dir[TextFile] = fetched[2].result
        /\ MetaFile \in wrote =>
              /\ dir[MetaFile] = ExpectedMeta(transcripts[FirstMax(transcripts)])
              /\ dir[MetaFile] # ExpectedMeta(transcripts[FirstOther(transcripts)])

\* C2 witness: the fallback's text "Hello" and the primary's metadata are written
C2_Witness ==
    /\ pc = "advance"
    /\ Len(fetched) = 2
    /\ fetched[1].result = None
    /\ fetched[2].result = "Hello"
    /\ wrote = {TextFile, MetaFile}
    /\ dir[TextFile] = "Hello"

\* C3: a page with versions whose text is still absent after the primary
\* fetch and (when a fallback exists) the fallback fetch gets an empty
\* <stem>.txt and its metadata file, and is not reported as an error.
C3_EmptyTextWritten ==
    (/\ pc = "advance"
     /\ Len(transcripts) > 0
     /\ Len(fetched) > 0
     /\ \A i \in DOMAIN fetched : fetched[i].result = None
     /\ ex # "OSError")
    =>
        /\ outcome = "Exported"
        /\ wrote = {TextFile, MetaFile}
        /\ dir[TextFile] = ""

\* C4: a page with an empty version list writes no file, fetches no
\* transcript and is not reported as an error.
C4_EmptyListSkipped ==
    (pc = "advance" /\ Len(transcripts) = 0)
    =>
        /\ wrote = {}
        /\ fetched = <<>>
        /\ outcome # "Error"

\* Every <<document, page>> position of docs_pages, in list order
RECURSIVE PagesUpTo(_)
PagesUpTo(d) ==
    IF d = 0 THEN <<>>
    ELSE PagesUpTo(d - 1) \o [p \in 1..Len(Pages(d)) |-> <<d, p>>]
AllPages == PagesUpTo(Len(docs_pages))

\* The pages entered so far are the first pages of the collection, each
\* once and in order; each finished page advanced its progress counter once;
\* the export loop is left only at the end of the last document.
ExportInOrder ==
    di >= 1 =>
        /\ Len(visited) <= Len(AllPages)
        /\ visited = SubSeq(AllPages, 1, Len(visited))
        /\ exit_code # 1
        /\ \A d \in DOMAIN task2 :
              task2[d] = Cardinality({i \in DOMAIN visited :
                            /\ visited[i][1] = d
                            /\ ~(pc \in {"fetch_latest", "fetch_other", "write_text",
                                          "write_meta", "advance"}
                                 /\ i = Len(visited))})
        /\ pc = "exit" =>
              /\ exit_code = 0
              /\ visited = AllPages
              /\ task = Len(docs_pages)
              /\ \A d \in DOMAIN docs_pages : task2[d] = Len(Pages(d))

\* Work left in the export phase: documents not yet left, then pages of the
\* current document not yet advanced past, then statements of the page
Rank ==
    LET docsLeft == Len(docs_pages) + 1 - di
        perDoc == 10 * (Len(AllPages) + 2)
        stage == CASE pc = "page" -> 6
                   [] pc = "fetch_latest" -> 5
                   [] pc = "fetch_other" -> 4
                   [] pc = "write_text" -> 3
                   [] pc = "write_meta" -> 2
                   [] OTHER -> 1
    IN  CASE pc = "exit" -> 0
          [] pc = "doc" -> docsLeft * perDoc + perDoc - 1
          [] OTHER -> docsLeft * perDoc + 10 * (Len(Pages(di)) + 1 - pgi) + stage

\* C5: once the export phase is reached, every page of every document is
\* processed exactly once in list order, whatever exception a page raises,
\* and the run reaches the end of the last document: until it has, a step
\* is always possible, and every step reduces the work left.
C5_EveryPageOnce ==
    /\ []ExportInOrder
    /\ [](di >= 1 => ((pc = "exit" /\ exit_code = 0) \/ ENABLED Next))
    /\ [][di >= 1 => Rank' < Rank]_vars

\* C5 witness: the run ended normally after a first page that raised (it
\* left no text file) and a later page that was exported
C5_Witness ==
    /\ pc = "exit"
    /\ exit_code = 0
    /\ Len(visited) >= 2
    /\ text_file_name(Pages(visited[1][1])[visited[1][2]]) \notin DOMAIN dir
    /\ text_file_name(Pages(visited[2][1])[visited[2][2]]) \in DOMAIN dir

FirstRegionText(regions) ==
    IF /\ Len(regions) >= 1
       /\ regions[1].hasTextEquiv
       /\ regions[1].Unicode # None
    THEN regions[1].Unicode
    ELSE None

\* C7: for a retrieved document with zero, one or several text regions,
\* fetch returns the first region's Unicode text when present and non-null,
\* and None otherwise.
C7_FirstRegionText ==
    \A i \in DOMAIN fetched :
        (/\ fetched[i].url \in DOMAIN remote.transcript
         /\ remote.transcript[fetched[i].url].ok)
        => fetched[i].result = FirstRegionText(remote.transcript[fetched[i].url].regions)

\* C8: when no session token is obtained or no collection has the requested
\* name, the run ends with a non-zero status before the document list, a
\* page list or a transcript is fetched, and no file is written.
C8_AbortBeforeExport ==
    (\/ pc \notin {"start", "login"} /\ session_id = None
     \/ collection = None)
    =>
        /\ pc \in {"start", "login", "collection", "list", "exit"}
        /\ pc = "exit" => exit_code = 1
        /\ docs = <<>>
        /\ docs_pages = <<>>
        /\ visited = <<>>
        /\ dir = EmptyMap

\* C9: processing a page a second time with unchanged remote data leaves
\* the target directory exactly as the first processing left it.
C9_Idempotent ==
    (/\ pc = "advance"
     /\ pgi >= 2
     /\ Pages(di)[pgi] = Pages(di)[pgi - 1])
    => dir = snap

\* C9 witness: the second processing has rewritten both files, the text
\* being the fallback's
C9_Witness ==
    /\ pc = "advance"
    /\ pgi = 2
    /\ Pages(di)[2] = Pages(di)[1]
    /\ Len(fetched) = 2
    /\ wrote = {TextFile, MetaFile}
    /\ dir[TextFile] = "Hello"

\* C10 as stated: at every page boundary the page's text file is written
\* if and only if its metadata file is.
C10_BothOrNone ==
    pc = "advance" => (TextFile \in wrote <=> MetaFile \in wrote)

\* C10 amended: the metadata file is written only after the text file; a
\* page processed without exception has both; a page reported as an error
\* has no metadata file, and has a text file only when the metadata write
\* itself raised.
C10_MetaImpliesText ==
    pc = "advance" =>
        /\ MetaFile \in wrote => TextFile \in wrote
        /\ outcome = "Exported" => wrote = {TextFile, MetaFile}
        /\ outcome = "Error" =>
              /\ MetaFile \notin wrote
              /\ TextFile \in wrote => ex = "OSError"

\* C10 witness: a page reported as an error has its text file alone
C10_Witness ==
    /\ pc = "advance"
    /\ outcome = "Error"
    /\ wrote = {TextFile}

====
